---- MODULE Spec2Model ----
(***************************************************************************)
(* The watch session of the rice-search client                             *)
(* (src/client/src/commands/watch.rs): the native watcher puts events on   *)
(* the channel rx, the event loop filters them and inserts the path into   *)
(* pending_files, and the spawned debounce task sweeps pending_files every *)
(* 500 ms, removes the entries that are at least DEBOUNCE_DELAY old and    *)
(* indexes them one after the other.                                       *)
(*                                                                         *)
(* Time unit: 500 ms.  Instant::now() is the variable now.  Steps that only *)
(* compute (handling an event, scanning and removing under the lock,       *)
(* hashing a file) take no time: the clock advances only while the event   *)
(* loop waits on an empty channel and the debounce task sleeps, awaits a   *)
(* response, or has ended.  The variables marked history record what has   *)
(* happened and are read by no action.                                     *)
(*                                                                         *)
(* Spec starts in the event loop with the debounce task spawned; it is the *)
(* specification of the debounce claims.  SessionSpec starts at the health *)
(* check of run(): the optional scan (src/client/src/watcher/scanner.rs),  *)
(* the build of the ignore matcher, the watcher and its registration, the  *)
(* spawn of the debounce task, and then the same event loop and debounce   *)
(* task, on trees with ignore files and with paths inside .git.            *)
(***************************************************************************)
EXTENDS Integers, Sequences, FiniteSets, TLC

\* ---------------------------------------------------------------- bounds
MaxTime == 9         \* the clock stops here
MaxQueue == 2        \* events the watcher may have queued on rx
MaxEvents == 3       \* events the watcher sends in a whole session
MaxPathLen == 5      \* characters of a path given to the upload_name computation
MaxQueued == 4       \* operations in the index writer's queue between two commits
MaxLimit == 2        \* the largest limit given to search
MaxResults == 3      \* entries of a result list given to filter_by_score
MaxLines == 1        \* lines on stdin of one index command of the Tantivy CLI
MaxTopK == 1         \* the largest top_k given to the search command

\* ------------------------------------------------------ program constants
DEBOUNCE_DELAY == 6  \* Duration::from_secs(3), in units of 500 ms
SWEEP_SLEEP == 1     \* Duration::from_millis(500), in units of 500 ms
HASH_PREFIX == 8     \* &hash[..8]
SHA256_HEX_LEN == 64 \* hex::encode of a 32-byte digest
UNKNOWN_LEN == 7     \* "unknown".len()

\* ------------------------------------------------------------------ paths
\* A path is the sequence of its components.
WatchRoot == <<"root">>
FileF == <<"root", "f.txt">>
FileG == <<"root", "g.txt">>
Paths == {FileF, FileG}
KeepFile == <<"root", "target", "keep.txt">>
LogFile == <<"root", "a", "x.log">>
TxtFile == <<"root", "a", "y.txt">>
GitHead == <<"root", ".git", "HEAD">>

\* A line of an ignore file: the glob pat (no slash inside: it is matched
\* against the last component of a candidate), negated by a leading `!`,
\* restricted to directories by a trailing `/`.
Rule(neg, pat, dir) == [neg |-> neg, pat |-> pat, dir |-> dir]

\* The rules of root/.gitignore in the debounce specification: `target/`.
IgnoreRules == <<Rule(FALSE, "target", TRUE)>>

GitignoreFile == <<"root", ".gitignore">>
RiceignoreFile == <<"root", ".riceignore">>
NestedGitignoreFile == <<"root", "a", ".gitignore">>

NoPath == <<>>
NoTime == -1

VARIABLES
  now,            \* Instant::now()
  fs,             \* fs[p]: p is a readable regular file
  rx,             \* the channel from the watcher to the event loop
  pending_files,  \* HashMap<PathBuf, Instant> as a set of <<path, instant>>
  mutex,          \* holder of the Mutex around pending_files
  sweepPc,        \* position of the debounce task
  wakeAt,         \* end of the debounce task's current sleep
  files_ready,    \* the Vec the sweep collected, not yet iterated
  file_path,      \* the loop variable of the indexing loop
  lastEvent,      \* history: time of the last insert for the path
  emits,          \* history: sweep removals of the path in the current burst
  dirty,          \* history: an insert not yet followed by an indexing attempt
  owed,           \* history: sweep removals minus indexing attempts
  refreshed,      \* history: the entry, or the removal not yet indexed, saw a refresh
  startPc,        \* position of run() before the event loop
  full_index,     \* the --full-index flag
  setup_error,    \* the startup step that failed, if any
  ignore_files,   \* the ignore files on disk: path of the file -> its rules
  ignore_matcher, \* the Gitignore that builder.build() returned
  walk,           \* the entries the scanner's walker has still to yield
  walk_failed,    \* history: the entries for which the walker yielded an error
  scan_uploaded,  \* the files the scanner handed to index_file
  delivered,      \* history: what the watcher has sent on tx, in order
  lost,           \* history: changed paths whose event was lost, not yet uploaded since
  call,           \* one call of ApiClient::index_file: its environment, position, result
  norm,           \* one computation of upload_name: caller, position, the strings
  index,          \* a TantivyIndex: committed documents, the writer's queue, last result
  shadow,         \* history: chunk_id -> the text last added and not deleted since
  visible,        \* history: shadow as it was at the last commit
  filt,           \* one call of filter_by_score: its arguments and what it returns
  cli             \* the index directory of the Tantivy CLI and its last command

history == <<lastEvent, emits, dirty, owed, refreshed, lost>>

\* what run() sets up before the event loop
startup == <<startPc, full_index, setup_error, ignore_files, ignore_matcher, walk,
             walk_failed, scan_uploaded>>

session == <<startup, delivered>>

\* the variables of the watch session
watch == <<now, fs, rx, pending_files, mutex, sweepPc, wakeAt, files_ready,
           file_path, history, session>>

\* the variables of the units that are specified on their own
units == <<call, norm, index, shadow, visible, filt, cli>>

vars == <<watch, units>>

\* ---------------------------------------------------------------- HashMap
Keys(m) == {e[1] : e \in m}

\* faulty variant: Vec::push instead of insert-or-update
HashMapInsert_Push(m, k, v) == m \cup {<<k, v>>}

\* faulty variant: entry(k).or_insert(v) keeps the old timestamp
HashMapInsert_OrInsert(m, k, v) ==
  IF k \in Keys(m) THEN m ELSE m \cup {<<k, v>>}

HashMapInsert(m, k, v) == {e \in m : e[1] # k} \cup {<<k, v>>}

\* faulty variant: pending.clear()
HashMapRemoveAll_Clear(m, ks) == {}

\* for path in &ready { pending.remove(path); }
HashMapRemoveAll(m, ks) == {e \in m : e[1] \notin ks}

Range(s) == {s[i] : i \in 1..Len(s)}

\* the orders in which iterating a HashMap may yield the set S
Orders(S) ==
  {s \in [1..Cardinality(S) -> S] : \A i, j \in 1..Cardinality(S) : s[i] = s[j] => i = j}

\* ----------------------------------------------------------- event filter
\* event_path.components().any(|c| c.as_os_str() == ".git")
HasGitComponent(p) == \E i \in 1..Len(p) : p[i] = ".git"

\* event_path.strip_prefix(root_path), falling back to the path itself
StripPrefix(p, root) ==
  IF Len(p) >= Len(root) /\ SubSeq(p, 1, Len(root)) = root
  THEN SubSeq(p, Len(root) + 1, Len(p))
  ELSE p

\* the text after the last dot of a file name
ExtensionOf(name) ==
  CASE name \in {"x.log"} -> "log"
    [] name \in {"f.txt", "g.txt", "y.txt", "keep.txt"} -> "txt"
    [] OTHER -> ""

\* a glob without a slash against one path component
GlobMatches(pat, name) ==
  IF pat = "*.log" THEN ExtensionOf(name) = "log" ELSE pat = name

\* Gitignore::matched_stripped: the last rule that matches the candidate
\* decides; a directory-only rule matches directories only.
MatchedStripped(rules, cand, is_dir) ==
  LET hits == {i \in 1..Len(rules) :
                 /\ rules[i].dir => is_dir
                 /\ Len(cand) > 0
                 /\ GlobMatches(rules[i].pat, cand[Len(cand)])}
  IN IF hits = {} THEN "None"
     ELSE LET last == CHOOSE i \in hits : \A j \in hits : j <= i
          IN IF rules[last].neg THEN "Whitelist" ELSE "Ignore"

\* the `while let Some(parent) = path.parent()` loop: the first directory,
\* walking up, that some rule matches decides
RECURSIVE MatchedParents(_, _)
MatchedParents(rules, dir) ==
  IF Len(dir) = 0 THEN "None"
  ELSE LET m == MatchedStripped(rules, dir, TRUE)
       IN IF m # "None" THEN m
          ELSE MatchedParents(rules, SubSeq(dir, 1, Len(dir) - 1))

\* Gitignore::matched_path_or_any_parents(rel, is_dir): the match of the path
\* itself is returned when there is one, else that of its nearest parent.
MatchedPathOrAnyParents(rules, rel, is_dir) ==
  IF rules = <<>> THEN "None"
  ELSE LET m == MatchedStripped(rules, rel, is_dir)
       IN IF m # "None" THEN m
          ELSE MatchedParents(rules, SubSeq(rel, 1, Len(rel) - 1))

\* ignore_matcher.matched_path_or_any_parents(rel, false) is Match::Ignore
MatchedIgnore(rel) == MatchedPathOrAnyParents(ignore_matcher, rel, FALSE) = "Ignore"

\* the rules of an ignore file; builder.add of a missing file adds nothing
RulesOf(files, file) == IF file \in DOMAIN files THEN files[file] ELSE <<>>

\* GitignoreBuilder::new(root), add(root/.gitignore), add(root/.riceignore)
BuildMatcher(files) == RulesOf(files, GitignoreFile) \o RulesOf(files, RiceignoreFile)

\* faulty variant: the component check for .git is left to the ignore rules
Qualifies_NoGitCheck(p) ==
  /\ fs[p]
  /\ ~MatchedIgnore(StripPrefix(p, WatchRoot))

\* the path passes every `continue` of the loop body
Qualifies(p) ==
  /\ fs[p]
  /\ ~HasGitComponent(p)
  /\ ~MatchedIgnore(StripPrefix(p, WatchRoot))

\* ------------------------------------------------------------------- Init
\* no call of index_file is followed on its own
NoCall == [pc |-> "idle"]

ApiIdle == call = NoCall

\* no upload_name is followed on its own
NormIdle == norm = [pc |-> "idle"]

\* no TantivyIndex is open
TantivyIdle ==
  /\ index = [pc |-> "idle"]
  /\ shadow = <<>>
  /\ visible = <<>>

\* filter_by_score is not called
FilterIdle == filt = [pc |-> "idle"]

\* the Tantivy CLI is not run
CliIdle == cli = [pc |-> "idle"]

\* the units that are specified on their own are not in use
UnitsIdle == ApiIdle /\ NormIdle /\ TantivyIdle /\ FilterIdle /\ CliIdle

\* no watch session: the state of the watch variables in the specifications
\* of the units
WatchParked ==
  /\ now = 0
  /\ fs = <<>>
  /\ rx = <<>>
  /\ pending_files = {}
  /\ mutex = "free"
  /\ sweepPc = "unspawned"
  /\ wakeAt = 0
  /\ files_ready = <<>>
  /\ file_path = NoPath
  /\ lastEvent = <<>>
  /\ emits = <<>>
  /\ dirty = <<>>
  /\ owed = <<>>
  /\ refreshed = <<>>
  /\ lost = {}
  /\ startPc = "aborted"
  /\ full_index = FALSE
  /\ setup_error = "none"
  /\ ignore_files = <<>>
  /\ ignore_matcher = <<>>
  /\ walk = <<>>
  /\ walk_failed = {}
  /\ scan_uploaded = {}
  /\ delivered = <<>>

Init ==
  /\ now = 0
  /\ fs = [p \in Paths |-> TRUE]
  /\ rx = <<>>
  /\ pending_files = {}
  /\ mutex = "free"
  /\ sweepPc = "sleep"
  /\ wakeAt = SWEEP_SLEEP
  /\ files_ready = <<>>
  /\ file_path = NoPath
  /\ lastEvent = [p \in Paths |-> NoTime]
  /\ emits = [p \in Paths |-> 0]
  /\ dirty = [p \in Paths |-> FALSE]
  /\ owed = [p \in Paths |-> 0]
  /\ refreshed = [p \in Paths |-> FALSE]
  /\ startPc = "loop"
  /\ full_index = FALSE
  /\ setup_error = "none"
  /\ ignore_files = (GitignoreFile :> IgnoreRules)
  /\ ignore_matcher = BuildMatcher(ignore_files)
  /\ walk = <<>>
  /\ walk_failed = {}
  /\ scan_uploaded = {}
  /\ delivered = <<>>
  /\ lost = {}
  /\ UnitsIdle

\* ------------------------------------------------------------ environment
\* A file is written: the watcher sends Create or Modify.
FsWrite(p) ==
  /\ Len(rx) < MaxQueue
  /\ fs' = [fs EXCEPT ![p] = TRUE]
  /\ rx' = Append(rx, [kind |-> IF fs[p] THEN "Modify" ELSE "Create", paths |-> <<p>>])
  /\ UNCHANGED <<units, session, now, pending_files, mutex, sweepPc, wakeAt, files_ready, file_path, history>>

\* A file is deleted: the watcher sends Remove.
FsRemove(p) ==
  /\ Len(rx) < MaxQueue
  /\ fs[p]
  /\ fs' = [fs EXCEPT ![p] = FALSE]
  /\ rx' = Append(rx, [kind |-> "Remove", paths |-> <<p>>])
  /\ UNCHANGED <<units, session, now, pending_files, mutex, sweepPc, wakeAt, files_ready, file_path, history>>

\* The rest of rx once the first path of its first event has been handled.
RxAfterPath ==
  IF Len(Head(rx).paths) > 1
  THEN <<[Head(rx) EXCEPT !.paths = Tail(@)]>> \o Tail(rx)
  ELSE Tail(rx)

\* ------------------------------------------------------------- event loop
\* faulty variant: an event for the path that is being indexed is dropped
PendingAfterEvent_SkipInFlight(p) ==
  IF p = file_path /\ sweepPc \in {"call", "await"}
  THEN pending_files
  ELSE HashMapInsert(pending_files, p, now)

\* pending.insert(event_path.clone(), Instant::now())
PendingAfterEvent(p) == HashMapInsert(pending_files, p, now)

\* Create/Modify, the path passes the filter: insert under the lock.
HandleInsert ==
  /\ startPc = "loop"
  /\ rx # <<>>
  /\ Head(rx).kind \in {"Create", "Modify"}
  /\ LET p == Head(Head(rx).paths) IN
       /\ Qualifies(p)
       /\ mutex = "free"
       /\ pending_files' = PendingAfterEvent(p)
       /\ lastEvent' = [lastEvent EXCEPT ![p] = now]
       /\ emits' = [emits EXCEPT ![p] =
                      IF lastEvent[p] = NoTime \/ now - lastEvent[p] >= DEBOUNCE_DELAY
                      THEN 0 ELSE @]
       /\ dirty' = [dirty EXCEPT ![p] = TRUE]
       /\ refreshed' = [refreshed EXCEPT ![p] = p \in Keys(pending_files)]
  /\ rx' = RxAfterPath
  /\ UNCHANGED <<units, session, now, fs, mutex, sweepPc, wakeAt, files_ready, file_path, owed, lost>>

\* Create/Modify, the path is filtered out by one of the `continue`s.
HandleFiltered ==
  /\ startPc = "loop"
  /\ rx # <<>>
  /\ Head(rx).kind \in {"Create", "Modify"}
  /\ ~Qualifies(Head(Head(rx).paths))
  /\ rx' = RxAfterPath
  /\ UNCHANGED <<units, session, now, fs, pending_files, mutex, sweepPc, wakeAt, files_ready, file_path, history>>

\* faulty variant: a Remove event is forwarded like a Modify
HandleOther_ForwardsRemove ==
  /\ startPc = "loop"
  /\ rx # <<>>
  /\ Head(rx).kind \notin {"Create", "Modify", "Error"}
  /\ rx' = Tail(rx)
  /\ mutex = "free"
  /\ pending_files' = IF Head(rx).kind = "Remove"
                      THEN HashMapInsert(pending_files, Head(Head(rx).paths), now)
                      ELSE pending_files
  /\ UNCHANGED <<units, session, now, fs, mutex, sweepPc, wakeAt, files_ready, file_path, history>>

\* Ok(event) of any other kind: `_ => ()`.
HandleOther ==
  /\ startPc = "loop"
  /\ rx # <<>>
  /\ Head(rx).kind \notin {"Create", "Modify", "Error"}
  /\ rx' = Tail(rx)
  /\ UNCHANGED <<units, session, now, fs, pending_files, mutex, sweepPc, wakeAt, files_ready, file_path, history>>

\* faulty variant: a watch error ends the event loop
HandleError_Stops ==
  /\ startPc = "loop"
  /\ rx # <<>>
  /\ Head(rx).kind = "Error"
  /\ rx' = Tail(rx)
  /\ startPc' = "aborted"
  /\ UNCHANGED <<units, now, fs, pending_files, mutex, sweepPc, wakeAt, files_ready, file_path,
                 history, setup_error, walk_failed, full_index, ignore_files, ignore_matcher, walk, scan_uploaded,
                 delivered>>

\* Err(e): println!("Watch error: ..") and the next iteration of the loop.
HandleError ==
  /\ startPc = "loop"
  /\ rx # <<>>
  /\ Head(rx).kind = "Error"
  /\ rx' = Tail(rx)
  /\ UNCHANGED <<units, session, now, fs, pending_files, mutex, sweepPc, wakeAt, files_ready, file_path, history>>

\* ---------------------------------------------------------- debounce task
\* the keys the filter of the sweep keeps
ReadyKeys == {e[1] : e \in {x \in pending_files : now - x[2] >= DEBOUNCE_DELAY}}

\* faulty variant: the guard is dropped before the entries are removed
SweepScan_Unlocked ==
  /\ sweepPc = "sleep"
  /\ now >= wakeAt
  /\ mutex = "free"
  /\ \E order \in Orders(ReadyKeys) : files_ready' = order
  /\ sweepPc' = "remove"
  /\ UNCHANGED <<units, session, now, fs, rx, pending_files, mutex, wakeAt, file_path, history>>

\* The sleep is over: lock, take now, collect the ready paths.
SweepScan ==
  /\ sweepPc = "sleep"
  /\ now >= wakeAt
  /\ mutex = "free"
  /\ mutex' = "sweep"
  /\ \E order \in Orders(ReadyKeys) : files_ready' = order
  /\ sweepPc' = "remove"
  /\ UNCHANGED <<units, session, now, fs, rx, pending_files, wakeAt, file_path, history>>

\* Remove the ready paths from pending and drop the guard.
SweepRemove ==
  /\ sweepPc = "remove"
  /\ pending_files' = HashMapRemoveAll(pending_files, Range(files_ready))
  /\ mutex' = "free"
  /\ sweepPc' = "index"
  /\ emits' = [p \in DOMAIN emits |->
                 IF p \in Range(files_ready) /\ p \in Keys(pending_files)
                 THEN emits[p] + 1 ELSE emits[p]]
  /\ owed' = [p \in DOMAIN owed |->
                IF p \in Range(files_ready) /\ p \in Keys(pending_files)
                THEN owed[p] + 1 ELSE owed[p]]
  /\ UNCHANGED <<units, session, now, fs, rx, wakeAt, files_ready, file_path, lastEvent, dirty, refreshed, lost>>

\* compute_file_hash(..).unwrap_or_else(|_| "unknown".to_string()).len()
HashLen(p) == IF fs[p] THEN SHA256_HEX_LEN ELSE UNKNOWN_LEN

\* Next iteration of `for file_path in files_ready`: canonicalize, hash,
\* print &hash[..8]; slicing past the end of the string panics the task.
IndexPrepare ==
  /\ sweepPc = "index"
  /\ files_ready # <<>>
  /\ file_path' = Head(files_ready)
  /\ files_ready' = Tail(files_ready)
  /\ sweepPc' = IF HASH_PREFIX > HashLen(Head(files_ready)) THEN "panicked" ELSE "call"
  /\ dirty' = [dirty EXCEPT ![Head(files_ready)] = FALSE]
  /\ owed' = [owed EXCEPT ![Head(files_ready)] = @ - 1]
  /\ refreshed' = [refreshed EXCEPT ![Head(files_ready)] =
                     @ /\ Head(files_ready) \in Keys(pending_files)]
  /\ UNCHANGED <<units, session, now, fs, rx, pending_files, mutex, wakeAt, lastEvent, emits, lost>>

\* c.index_file(..): tokio::fs::read fails and index_file returns Err, or
\* the request is sent and the task awaits the response.
IndexFileCall ==
  /\ sweepPc = "call"
  /\ sweepPc' = IF fs[file_path] THEN "await" ELSE "failed"
  /\ lost' = lost \ {file_path}
  /\ UNCHANGED <<units, session, now, fs, rx, pending_files, mutex, wakeAt, files_ready, file_path,
                 lastEvent, emits, dirty, owed, refreshed>>

\* The request ends: a 2xx response with a JSON body, or a transport error,
\* a non-2xx status or an unreadable body.
IndexFileResponse ==
  /\ sweepPc = "await"
  /\ \E outcome \in {"ok", "failed"} : sweepPc' = outcome
  /\ UNCHANGED <<units, session, now, fs, rx, pending_files, mutex, wakeAt, files_ready, file_path, history>>

\* faulty variant: a failed upload puts the path back into the pending table
IndexFileDone_Retry ==
  /\ sweepPc \in {"ok", "failed"}
  /\ sweepPc' = "index"
  /\ pending_files' = IF sweepPc = "failed"
                      THEN HashMapInsert(pending_files, file_path, now)
                      ELSE pending_files
  /\ UNCHANGED <<units, session, now, fs, rx, mutex, wakeAt, files_ready, file_path, history>>

\* index_file has returned Ok or Err; `let _ =` discards it.
IndexFileDone ==
  /\ sweepPc \in {"ok", "failed"}
  /\ sweepPc' = "index"
  /\ UNCHANGED <<units, session, now, fs, rx, pending_files, mutex, wakeAt, files_ready, file_path, history>>

\* The Vec is exhausted: back to tokio::time::sleep(500 ms).
SweepSleep ==
  /\ sweepPc = "index"
  /\ files_ready = <<>>
  /\ sweepPc' = "sleep"
  /\ wakeAt' = now + SWEEP_SLEEP
  /\ file_path' = NoPath
  /\ UNCHANGED <<units, session, now, fs, rx, pending_files, mutex, files_ready, history>>

\* ------------------------------------------------------------------- time
\* Time passes only while every task waits: the event loop on an empty
\* channel, the debounce task in its sleep or on the network (or dead).
Tick ==
  /\ now < MaxTime
  /\ rx = <<>>
  /\ \/ sweepPc \in {"await", "panicked"}
     \/ sweepPc = "sleep" /\ now < wakeAt
  /\ now' = now + 1
  /\ UNCHANGED <<units, session, fs, rx, pending_files, mutex, sweepPc, wakeAt, files_ready, file_path, history>>

Next ==
  \/ \E p \in Paths : FsWrite(p)
  \/ \E p \in Paths : FsRemove(p)
  \/ HandleInsert
  \/ HandleFiltered
  \/ HandleOther
  \/ SweepScan
  \/ SweepRemove
  \/ IndexPrepare
  \/ IndexFileCall
  \/ IndexFileResponse
  \/ IndexFileDone
  \/ SweepSleep
  \/ Tick

Spec == Init /\ [][Next]_vars

\* ======================================================== the whole session
\* run() from its first line: the optional scan, the ignore matcher, the
\* watcher and its registration, the debounce task, the event loop.

\* The sessions that are started: the regular files that exist or come to
\* exist under the root, those present at startup, the ignore files on disk
\* and the --full-index flag.
Scenes ==
  { \* target/ is ignored, target/keep.txt is re-included by .riceignore
    [files |-> {KeepFile}, present |-> {KeepFile}, full_index |-> TRUE,
     ignore |-> (GitignoreFile :> <<Rule(FALSE, "target", TRUE)>>) @@
                (RiceignoreFile :> <<Rule(TRUE, "keep.txt", FALSE)>>)],
    \* a/.gitignore holds *.log; a/x.log and a/y.txt are created under watch
    [files |-> {LogFile, TxtFile}, present |-> {}, full_index |-> FALSE,
     ignore |-> (NestedGitignoreFile :> <<Rule(FALSE, "*.log", FALSE)>>)],
    \* the root .gitignore re-includes .git and HEAD
    [files |-> {GitHead}, present |-> {GitHead}, full_index |-> TRUE,
     ignore |-> (GitignoreFile :> <<Rule(TRUE, ".git", FALSE), Rule(TRUE, "HEAD", FALSE)>>)],
    \* no ignore file at all
    [files |-> {GitHead, FileF}, present |-> {GitHead, FileF}, full_index |-> TRUE,
     ignore |-> <<>>] }

SessionInit ==
  \E sc \in Scenes :
    /\ now = 0
    /\ fs = [p \in sc.files |-> p \in sc.present]
    /\ rx = <<>>
    /\ pending_files = {}
    /\ mutex = "free"
    /\ sweepPc = "unspawned"
    /\ wakeAt = 0
    /\ files_ready = <<>>
    /\ file_path = NoPath
    /\ lastEvent = [p \in sc.files |-> NoTime]
    /\ emits = [p \in sc.files |-> 0]
    /\ dirty = [p \in sc.files |-> FALSE]
    /\ owed = [p \in sc.files |-> 0]
    /\ refreshed = [p \in sc.files |-> FALSE]
    /\ lost = {}
    /\ startPc = "health"
    /\ full_index = sc.full_index
    /\ setup_error = "none"
    /\ ignore_files = sc.ignore
    /\ ignore_matcher = <<>>
    /\ walk = IF sc.full_index THEN CHOOSE o \in Orders(sc.files) : TRUE ELSE <<>>
    /\ walk_failed = {}
    /\ scan_uploaded = {}
    /\ delivered = <<>>
    /\ UnitsIdle

\* ----------------------------------------------------------- health check
\* client.health_check(): GET {base_url}/healthz is sent and awaited
HealthCheckSend ==
  /\ startPc = "health"
  /\ startPc' = "health_await"
  /\ UNCHANGED <<units, now, fs, rx, pending_files, mutex, sweepPc, wakeAt, files_ready, file_path,
                 history, walk_failed, full_index, setup_error, ignore_files, ignore_matcher, walk,
                 scan_uploaded, delivered>>

\* Ok(resp) => resp.status().is_success(), Err(_) => false
HealthCheckResponse ==
  /\ startPc = "health_await"
  /\ \E outcome \in {"2xx", "non2xx", "error"} :
       startPc' = IF outcome = "2xx" THEN "healthy" ELSE "unhealthy"
  /\ UNCHANGED <<units, now, fs, rx, pending_files, mutex, sweepPc, wakeAt, files_ready, file_path,
                 history, walk_failed, full_index, setup_error, ignore_files, ignore_matcher, walk,
                 scan_uploaded, delivered>>

\* the warning or the success line is printed; `if full_index` comes next
HealthReport ==
  /\ startPc \in {"healthy", "unhealthy"}
  /\ startPc' = IF full_index THEN "scan" ELSE "build"
  /\ UNCHANGED <<units, now, fs, rx, pending_files, mutex, sweepPc, wakeAt, files_ready, file_path,
                 history, walk_failed, full_index, setup_error, ignore_files, ignore_matcher, walk,
                 scan_uploaded, delivered>>

\* ---------------------------------------------------------------- scanner
ParentDir(p) == SubSeq(p, 1, Len(p) - 1)

\* The ignore files called name in the directories from dir up to the root
\* of the walk: the nearest one with a rule that matches the entry decides.
RECURSIVE LevelMatch(_, _, _, _, _)
LevelMatch(files, name, dir, entry, is_dir) ==
  IF Len(dir) < Len(WatchRoot) THEN "None"
  ELSE LET m == MatchedStripped(RulesOf(files, dir \o <<name>>),
                                StripPrefix(entry, dir), is_dir)
       IN IF m # "None" THEN m
          ELSE LevelMatch(files, name, ParentDir(dir), entry, is_dir)

\* add_custom_ignore_filename(".riceignore") takes precedence over
\* git_ignore(true)
WalkMatch(files, entry, is_dir) ==
  LET custom == LevelMatch(files, ".riceignore", ParentDir(entry), entry, is_dir)
  IN IF custom # "None" THEN custom
     ELSE LevelMatch(files, ".gitignore", ParentDir(entry), entry, is_dir)

\* the walker does not yield the entry, and does not descend into it:
\* filter_entry(|entry| entry.file_name() != ".git"), or an ignore rule
WalkSkips(files, entry, is_dir) ==
  \/ entry[Len(entry)] = ".git"
  \/ WalkMatch(files, entry, is_dir) = "Ignore"

\* the walker reaches the file: no directory on the way is skipped, nor the
\* file itself
WalkYields(files, p) ==
  \A k \in (Len(WatchRoot) + 1)..Len(p) :
    ~WalkSkips(files, SubSeq(p, 1, k), k < Len(p))

\* faulty variant: the walker yields the same entry again
ScanStep_Again ==
  /\ startPc = "scan"
  /\ walk # <<>>
  /\ IF fs[Head(walk)] /\ WalkYields(ignore_files, Head(walk))
     THEN /\ scan_uploaded' = scan_uploaded \cup {Head(walk)}
          /\ startPc' = "scan_call"
     ELSE UNCHANGED <<scan_uploaded, startPc>>
  /\ UNCHANGED <<units, now, fs, rx, pending_files, mutex, sweepPc, wakeAt, files_ready, file_path,
                 history, setup_error, walk_failed, full_index, ignore_files, ignore_matcher,
                 walk, delivered>>

\* One iteration of `for result in walker` with Ok(entry): a regular file
\* that the walker yields goes to process_file, which hands it to index_file;
\* a skipped entry and a directory take the loop to its next iteration.
ScanStep ==
  /\ startPc = "scan"
  /\ walk # <<>>
  /\ walk' = Tail(walk)
  /\ IF fs[Head(walk)] /\ WalkYields(ignore_files, Head(walk))
     THEN /\ scan_uploaded' = scan_uploaded \cup {Head(walk)}
          /\ startPc' = "scan_call"
     ELSE UNCHANGED <<scan_uploaded, startPc>>
  /\ UNCHANGED <<units, now, fs, rx, pending_files, mutex, sweepPc, wakeAt, files_ready, file_path,
                 history, setup_error, walk_failed, full_index, ignore_files, ignore_matcher,
                 delivered>>

\* One iteration with Err(err): warn!("Error walking path: ..").
ScanWalkError ==
  /\ startPc = "scan"
  /\ walk # <<>>
  /\ walk' = Tail(walk)
  /\ walk_failed' = walk_failed \cup {Head(walk)}
  /\ UNCHANGED <<units, now, fs, rx, pending_files, mutex, sweepPc, wakeAt, files_ready, file_path,
                 history, startPc, setup_error, full_index, ignore_files, ignore_matcher,
                 scan_uploaded, delivered>>

\* self.client.index_file(..).await returns Ok or Err (the file cannot be
\* read, the request fails, the status is not 2xx)
ScanIndexFile ==
  /\ startPc = "scan_call"
  /\ \E outcome \in {"scan_ok", "scan_failed"} : startPc' = outcome
  /\ UNCHANGED <<units, now, fs, rx, pending_files, mutex, sweepPc, wakeAt, files_ready, file_path,
                 history, setup_error, walk_failed, full_index, ignore_files, ignore_matcher,
                 walk, scan_uploaded, delivered>>

\* faulty variant: an upload error ends the scan and the session
ScanReport_Abort ==
  /\ startPc \in {"scan_ok", "scan_failed"}
  /\ startPc' = IF startPc = "scan_failed" THEN "aborted" ELSE "scan"
  /\ UNCHANGED <<units, now, fs, rx, pending_files, mutex, sweepPc, wakeAt, files_ready, file_path,
                 history, setup_error, walk_failed, full_index, ignore_files, ignore_matcher,
                 walk, scan_uploaded, delivered>>

\* Ok(_) => println!("[OK] .."), Err(e) => println!("[ERROR] .."); process_file
\* returns and the loop goes on
ScanReport ==
  /\ startPc \in {"scan_ok", "scan_failed"}
  /\ startPc' = "scan"
  /\ UNCHANGED <<units, now, fs, rx, pending_files, mutex, sweepPc, wakeAt, files_ready, file_path,
                 history, setup_error, walk_failed, full_index, ignore_files, ignore_matcher,
                 walk, scan_uploaded, delivered>>

\* the walker is exhausted: "Scan complete.", scan returns
ScanDone ==
  /\ startPc = "scan"
  /\ walk = <<>>
  /\ startPc' = "build"
  /\ UNCHANGED <<units, now, fs, rx, pending_files, mutex, sweepPc, wakeAt, files_ready, file_path,
                 history, setup_error, walk_failed, full_index, ignore_files, ignore_matcher,
                 walk, scan_uploaded, delivered>>

\* --------------------------------------------------------- the scan alone
\* Scanner::scan on trees with ignored, nested and .git entries, with walk
\* errors; any of the files may be missing or not a regular file.
ScanFiles == <<GitHead, FileF, KeepFile, LogFile, TxtFile, FileG>>

ScanInit ==
  /\ now = 0
  /\ fs \in [Range(ScanFiles) -> BOOLEAN]
  /\ rx = <<>>
  /\ pending_files = {}
  /\ mutex = "free"
  /\ sweepPc = "unspawned"
  /\ wakeAt = 0
  /\ files_ready = <<>>
  /\ file_path = NoPath
  /\ lastEvent = [p \in Range(ScanFiles) |-> NoTime]
  /\ emits = [p \in Range(ScanFiles) |-> 0]
  /\ dirty = [p \in Range(ScanFiles) |-> FALSE]
  /\ owed = [p \in Range(ScanFiles) |-> 0]
  /\ refreshed = [p \in Range(ScanFiles) |-> FALSE]
  /\ lost = {}
  /\ startPc = "scan"
  /\ full_index = TRUE
  /\ setup_error = "none"
  /\ ignore_files = (GitignoreFile :> <<Rule(FALSE, "target", TRUE)>>) @@
                    (NestedGitignoreFile :> <<Rule(FALSE, "*.log", FALSE)>>)
  /\ ignore_matcher = <<>>
  /\ walk = ScanFiles
  /\ walk_failed = {}
  /\ scan_uploaded = {}
  /\ delivered = <<>>
  /\ UnitsIdle

ScanNext ==
  \/ ScanStep
  \/ ScanWalkError
  \/ ScanIndexFile
  \/ ScanReport
  \/ ScanDone

ScanSpec == ScanInit /\ [][ScanNext]_vars

\* ---------------------------------------------------------------- startup
\* builder.add(root/.gitignore); builder.add(root/.riceignore);
\* builder.build() returns Ok
BuildIgnore ==
  /\ startPc = "build"
  /\ ignore_matcher' = BuildMatcher(ignore_files)
  /\ startPc' = "watcher"
  /\ UNCHANGED <<units, now, fs, rx, pending_files, mutex, sweepPc, wakeAt, files_ready, file_path,
                 history, setup_error, walk_failed, full_index, ignore_files, walk, scan_uploaded, delivered>>

\* faulty variant: the error is swallowed and an empty matcher is used
BuildIgnoreFails_Lenient ==
  /\ startPc = "build"
  /\ BuildMatcher(ignore_files) # <<>>
  /\ setup_error' = "build"
  /\ ignore_matcher' = <<>>
  /\ startPc' = "watcher"
  /\ UNCHANGED <<units, now, fs, rx, pending_files, mutex, sweepPc, wakeAt, files_ready, file_path,
                 history, walk_failed, full_index, ignore_files, walk, scan_uploaded, delivered>>

\* builder.build() returns Err (the glob set of the rules cannot be
\* compiled) and unwrap() panics in run()
BuildIgnoreFails ==
  /\ startPc = "build"
  /\ BuildMatcher(ignore_files) # <<>>
  /\ setup_error' = "build"
  /\ startPc' = "aborted"
  /\ UNCHANGED <<units, now, fs, rx, pending_files, mutex, sweepPc, wakeAt, files_ready, file_path,
                 history, walk_failed, full_index, ignore_files, ignore_matcher, walk, scan_uploaded, delivered>>

\* RecommendedWatcher::new(tx, Config::default())?
NewWatcher ==
  /\ startPc = "watcher"
  /\ startPc' = "register"
  /\ UNCHANGED <<units, now, fs, rx, pending_files, mutex, sweepPc, wakeAt, files_ready, file_path,
                 history, setup_error, walk_failed, full_index, ignore_files, ignore_matcher, walk, scan_uploaded, delivered>>

NewWatcherFails ==
  /\ startPc = "watcher"
  /\ setup_error' = "watcher"
  /\ startPc' = "aborted"
  /\ UNCHANGED <<units, now, fs, rx, pending_files, mutex, sweepPc, wakeAt, files_ready, file_path,
                 history, walk_failed, full_index, ignore_files, ignore_matcher, walk, scan_uploaded, delivered>>

\* watcher.watch(root_path, RecursiveMode::Recursive)?
WatchRegister ==
  /\ startPc = "register"
  /\ startPc' = "spawn"
  /\ UNCHANGED <<units, now, fs, rx, pending_files, mutex, sweepPc, wakeAt, files_ready, file_path,
                 history, setup_error, walk_failed, full_index, ignore_files, ignore_matcher, walk, scan_uploaded, delivered>>

WatchRegisterFails ==
  /\ startPc = "register"
  /\ setup_error' = "register"
  /\ startPc' = "aborted"
  /\ UNCHANGED <<units, now, fs, rx, pending_files, mutex, sweepPc, wakeAt, files_ready, file_path,
                 history, walk_failed, full_index, ignore_files, ignore_matcher, walk, scan_uploaded, delivered>>

\* tokio::spawn of the debounce task, which starts in its first sleep; run()
\* goes on to `for res in rx`.
SpawnDebounce ==
  /\ startPc = "spawn"
  /\ startPc' = "loop"
  /\ sweepPc' = "sleep"
  /\ wakeAt' = now + SWEEP_SLEEP
  /\ UNCHANGED <<units, now, fs, rx, pending_files, mutex, files_ready, file_path,
                 history, setup_error, walk_failed, full_index, ignore_files, ignore_matcher, walk, scan_uploaded, delivered>>

\* ------------------------------------------------- the registered watcher
\* the watch is registered: the watcher's thread sends what the OS reports
Watching == startPc \in {"spawn", "loop"}

\* faulty variant: a channel of capacity one whose sender drops what does
\* not fit
ChannelSend_Bounded(q, ev) == IF Len(q) >= 1 THEN q ELSE Append(q, ev)

\* tx.send(res) on std::sync::mpsc::channel(): never blocks, never fails
\* while rx is alive
ChannelSend(q, ev) == Append(q, ev)

\* the watcher calls its event handler with res
Deliver(ev) ==
  /\ Watching
  /\ Len(delivered) < MaxEvents
  /\ rx' = ChannelSend(rx, ev)
  /\ delivered' = Append(delivered, ev)

\* A file under the root is written.
WatchedWrite(p) ==
  /\ Deliver([kind |-> IF fs[p] THEN "Modify" ELSE "Create", paths |-> <<p>>])
  /\ fs' = [fs EXCEPT ![p] = TRUE]
  /\ UNCHANGED <<units, now, pending_files, mutex, sweepPc, wakeAt, files_ready, file_path,
                 history, startup>>

\* A file under the root is deleted.
WatchedRemove(p) ==
  /\ fs[p]
  /\ Deliver([kind |-> "Remove", paths |-> <<p>>])
  /\ fs' = [fs EXCEPT ![p] = FALSE]
  /\ UNCHANGED <<units, now, pending_files, mutex, sweepPc, wakeAt, files_ready, file_path,
                 history, startup>>

\* The native subsystem reports an error: the handler is called with Err(e).
WatcherError ==
  /\ Deliver([kind |-> "Error", paths |-> <<>>])
  /\ UNCHANGED <<units, now, fs, pending_files, mutex, sweepPc, wakeAt, files_ready, file_path,
                 history, startup>>

\* The OS event queue overflows while p is written: the event of p is gone,
\* the watcher sends an Other event flagged Rescan, without paths.
WatcherOverflow(p) ==
  /\ Deliver([kind |-> "Other", paths |-> <<>>])
  /\ fs' = [fs EXCEPT ![p] = TRUE]
  /\ lost' = lost \cup {p}
  /\ UNCHANGED <<units, now, pending_files, mutex, sweepPc, wakeAt, files_ready, file_path,
                 lastEvent, emits, dirty, owed, refreshed, startup>>

SessionNext ==
  \/ HealthCheckSend
  \/ HealthCheckResponse
  \/ HealthReport
  \/ ScanStep
  \/ ScanIndexFile
  \/ ScanReport
  \/ ScanDone
  \/ BuildIgnore
  \/ BuildIgnoreFails
  \/ NewWatcher
  \/ NewWatcherFails
  \/ WatchRegister
  \/ WatchRegisterFails
  \/ SpawnDebounce
  \/ \E p \in DOMAIN fs : WatchedWrite(p)
  \/ \E p \in DOMAIN fs : WatchedRemove(p)
  \/ WatcherError
  \/ \E p \in DOMAIN fs : WatcherOverflow(p)
  \/ HandleInsert
  \/ HandleFiltered
  \/ HandleOther
  \/ HandleError
  \/ SweepScan
  \/ SweepRemove
  \/ IndexPrepare
  \/ IndexFileCall
  \/ IndexFileResponse
  \/ IndexFileDone
  \/ SweepSleep
  \/ Tick

SessionSpec == SessionInit /\ [][SessionNext]_vars

\* ------------------------------------------- the scan and then the watch
\* run() with --full-index on a tree of two files and no ignore file, from
\* the scan on; the files are also written while no watch is registered.
StartInit ==
  /\ now = 0
  /\ fs = [p \in Paths |-> TRUE]
  /\ rx = <<>>
  /\ pending_files = {}
  /\ mutex = "free"
  /\ sweepPc = "unspawned"
  /\ wakeAt = 0
  /\ files_ready = <<>>
  /\ file_path = NoPath
  /\ lastEvent = [p \in Paths |-> NoTime]
  /\ emits = [p \in Paths |-> 0]
  /\ dirty = [p \in Paths |-> FALSE]
  /\ owed = [p \in Paths |-> 0]
  /\ refreshed = [p \in Paths |-> FALSE]
  /\ lost = {}
  /\ startPc = "scan"
  /\ full_index = TRUE
  /\ setup_error = "none"
  /\ ignore_files = <<>>
  /\ ignore_matcher = <<>>
  /\ walk = <<FileF, FileG>>
  /\ walk_failed = {}
  /\ scan_uploaded = {}
  /\ delivered = <<>>
  /\ UnitsIdle

\* A file under the root is written before watcher.watch() has registered
\* the watch: no event is sent.  A write before the scan reads the file is
\* part of what the scan uploads; a write after that is a change that no
\* upload has carried yet.
UnwatchedWrite(p) ==
  /\ startPc \in {"scan", "scan_call", "scan_ok", "scan_failed", "build", "watcher", "register"}
  /\ fs' = [fs EXCEPT ![p] = TRUE]
  /\ lost' = IF p \in scan_uploaded /\ startPc # "scan_call" THEN lost \cup {p} ELSE lost
  /\ UNCHANGED <<units, now, rx, pending_files, mutex, sweepPc, wakeAt, files_ready, file_path,
                 lastEvent, emits, dirty, owed, refreshed, session>>

StartNext ==
  \/ \E p \in DOMAIN fs : UnwatchedWrite(p)
  \/ ScanStep
  \/ ScanIndexFile
  \/ ScanReport
  \/ ScanDone
  \/ BuildIgnore
  \/ NewWatcher
  \/ WatchRegister
  \/ SpawnDebounce
  \/ \E p \in DOMAIN fs : WatchedWrite(p)
  \/ HandleInsert
  \/ SweepScan
  \/ SweepRemove
  \/ IndexPrepare
  \/ IndexFileCall
  \/ IndexFileResponse
  \/ IndexFileDone
  \/ SweepSleep
  \/ Tick

StartSpec == StartInit /\ [][StartNext]_vars


\* ============================================== ApiClient::index_file alone
\* The call is followed step by step; its environment is drawn at the start:
\* whether the file can be read, whether the request gets a response, the
\* status of the response and whether its body is JSON.
StatusCodes == {199, 200, 204, 299, 300, 404, 500, 503}

\* StatusCode::is_success
IsSuccess(status) == status >= 200 /\ status < 300

ApiInit ==
  /\ WatchParked
  /\ call \in [pc : {"read"}, read_ok : BOOLEAN, send_ok : BOOLEAN,
               status : StatusCodes, json_ok : BOOLEAN, result : {"none"}]
  /\ NormIdle
  /\ TantivyIdle
  /\ FilterIdle
  /\ CliIdle

\* the call returns
Return(result) == call' = [call EXCEPT !.pc = "done", !.result = result]

\* tokio::fs::read(path).await.context("Failed to read file")?
IndexFileRead ==
  /\ call.pc = "read"
  /\ IF call.read_ok THEN call' = [call EXCEPT !.pc = "send"] ELSE Return("Err")
  /\ UNCHANGED <<watch, norm, index, shadow, visible, filt, cli>>

\* self.client.post(..).multipart(form).send().await?
IndexFileSend ==
  /\ call.pc = "send"
  /\ IF call.send_ok THEN call' = [call EXCEPT !.pc = "status"] ELSE Return("Err")
  /\ UNCHANGED <<watch, norm, index, shadow, visible, filt, cli>>

\* faulty variant: the status of the response is not looked at
IndexFileStatus_Unchecked ==
  /\ call.pc = "status"
  /\ call' = [call EXCEPT !.pc = "json"]
  /\ UNCHANGED <<watch, norm, index, shadow, visible, filt, cli>>

\* if !resp.status().is_success() { anyhow::bail!(..) }
IndexFileStatus ==
  /\ call.pc = "status"
  /\ IF IsSuccess(call.status) THEN call' = [call EXCEPT !.pc = "json"] ELSE Return("Err")
  /\ UNCHANGED <<watch, norm, index, shadow, visible, filt, cli>>

\* let json: Value = resp.json().await?; Ok(json)
IndexFileJson ==
  /\ call.pc = "json"
  /\ IF call.json_ok THEN Return("Ok") ELSE Return("Err")
  /\ UNCHANGED <<watch, norm, index, shadow, visible, filt, cli>>

ApiNext ==
  \/ IndexFileRead
  \/ IndexFileSend
  \/ IndexFileStatus
  \/ IndexFileJson

ApiSpec == ApiInit /\ [][ApiNext]_vars


\* ======================================================= upload_name alone
\* The same lines in the debounce task (watch.rs:89-102) and in
\* Scanner::process_file (scanner.rs:52-61).  A string is the sequence of its
\* characters.
Chars == {"\\", "/", "?", "a"}

\* the strings of at most n characters
StringsUpTo(n) == UNION {[1..k -> Chars] : k \in 0..n}

\* "\\\\?\\": the verbatim prefix of Windows
Marker == <<"\\", "\\", "?", "\\">>

\* str::starts_with
StartsWith(str, prefix) ==
  Len(str) >= Len(prefix) /\ SubSeq(str, 1, Len(prefix)) = prefix

\* s.replace(from, to) for single characters
Replace(str, from, to) == [i \in 1..Len(str) |-> IF str[i] = from THEN to ELSE str[i]]

\* What std::fs::canonicalize can answer: an error (the callers fall back to
\* the path as given), the path itself where it is already canonical, or, on
\* Windows, the verbatim form: the marker and backslashes only.
Canonicalized(path) ==
  {path,
   IF StartsWith(path, Marker) THEN Replace(path, "/", "\\")
   ELSE Marker \o Replace(path, "/", "\\")}

NormInit ==
  /\ WatchParked
  /\ ApiIdle
  /\ TantivyIdle
  /\ FilterIdle
  /\ CliIdle
  /\ norm \in [pc : {"canonicalize"}, caller : {"process_file", "debounce"},
               path : StringsUpTo(MaxPathLen)]

\* let abs_path = std::fs::canonicalize(path).unwrap_or_else(|_| path.to_path_buf());
\* abs_path.to_string_lossy()
Canonicalize ==
  /\ norm.pc = "canonicalize"
  /\ \E abs \in Canonicalized(norm.path) :
       norm' = [pc |-> "clean", caller |-> norm.caller, path |-> norm.path, abs_str |-> abs]
  /\ UNCHANGED <<watch, call, index, shadow, visible, filt, cli>>

\* if abs_str.starts_with("\\\\?\\") { &abs_str[4..] } else { &abs_str }
CleanPath(abs_str) ==
  IF StartsWith(abs_str, Marker) THEN SubSeq(abs_str, Len(Marker) + 1, Len(abs_str))
  ELSE abs_str

\* faulty variant: the separators are left as they are
UploadName_NoReplace(abs_str) == CleanPath(abs_str)

\* clean_path.replace("\\", "/")
UploadName(abs_str) == Replace(CleanPath(abs_str), "\\", "/")

\* the upload name is computed and handed to index_file
HandToUploader ==
  /\ norm.pc = "clean"
  /\ norm' = [pc |-> "done", caller |-> norm.caller, path |-> norm.path,
              abs_str |-> norm.abs_str, upload_name |-> UploadName(norm.abs_str)]
  /\ UNCHANGED <<watch, call, index, shadow, visible, filt, cli>>

NormNext ==
  \/ Canonicalize
  \/ HandToUploader

NormSpec == NormInit /\ [][NormNext]_vars


\* ============================================================ TantivyIndex
\* src/rust-tantivy/src/index.rs.  The index holds the committed documents,
\* in segment order; the writer queues delete and add operations, which
\* commit applies in the order they were queued; a reader, opened by every
\* search and doc_count, sees the committed documents.
ChunkIds == {"chunk1", "chunk2"}
Terms == {"rust", "python"}

\* a text is the set of its terms
Texts == {{"rust"}, {"python"}, {"rust", "python"}}

\* no document under a chunk_id: no text
None == {}

Doc(chunk_id, text) == [chunk_id |-> chunk_id, text |-> text]

\* what the last call returned
Returned(method, value) == [call |-> method, value |-> value]

TantivyInit ==
  /\ WatchParked
  /\ ApiIdle
  /\ NormIdle
  /\ FilterIdle
  /\ CliIdle
  /\ index = [pc |-> "open", committed |-> <<>>, queue |-> <<>>,
              result |-> Returned("new", "Ok")]
  /\ shadow = [c \in ChunkIds |-> None]
  /\ visible = [c \in ChunkIds |-> None]

\* the documents whose chunk_id is not in gone, in their order
RECURSIVE SelectDocs(_, _)
SelectDocs(docs, gone) ==
  IF docs = <<>> THEN <<>>
  ELSE IF Head(docs).chunk_id \in gone THEN SelectDocs(Tail(docs), gone)
       ELSE <<Head(docs)>> \o SelectDocs(Tail(docs), gone)

\* IndexWriter::commit: a delete_term removes the documents with that term
\* that were committed or added before it, an add appends the document
RECURSIVE Applied(_, _)
Applied(docs, queue) ==
  IF queue = <<>> THEN docs
  ELSE LET op == Head(queue)
       IN Applied(IF op.op = "delete_term" THEN SelectDocs(docs, {op.chunk_id})
                  ELSE Append(docs, Doc(op.chunk_id, op.text)),
                  Tail(queue))

\* self.writer.delete_term(term)
DeleteTerm(queue, chunk_id) == Append(queue, [op |-> "delete_term", chunk_id |-> chunk_id])

\* faulty variant: the document is added without deleting its predecessor
QueueAfterAdd_NoDelete(queue, chunk_id, text) ==
  Append(queue, [op |-> "add_document", chunk_id |-> chunk_id, text |-> text])

\* self.delete_document(chunk_id)?; self.writer.add_document(doc)?
QueueAfterAdd(queue, chunk_id, text) ==
  Append(DeleteTerm(queue, chunk_id),
         [op |-> "add_document", chunk_id |-> chunk_id, text |-> text])

\* TantivyIndex::add_document
AddDocument(chunk_id, text) ==
  /\ index.pc = "open"
  /\ Len(index.queue) + 2 <= MaxQueued
  /\ index' = [index EXCEPT !.queue = QueueAfterAdd(@, chunk_id, text),
                            !.result = Returned("add_document", "Ok")]
  /\ shadow' = [shadow EXCEPT ![chunk_id] = text]
  /\ UNCHANGED <<watch, call, norm, filt, cli, visible>>

\* faulty variant: nothing is queued
DeleteDocument_Nothing(chunk_id) ==
  /\ index.pc = "open"
  /\ Len(index.queue) + 1 <= MaxQueued
  /\ index' = [index EXCEPT !.result = Returned("delete_document", "Ok")]
  /\ shadow' = [shadow EXCEPT ![chunk_id] = None]
  /\ UNCHANGED <<watch, call, norm, filt, cli, visible>>

\* TantivyIndex::delete_document
DeleteDocument(chunk_id) ==
  /\ index.pc = "open"
  /\ Len(index.queue) + 1 <= MaxQueued
  /\ index' = [index EXCEPT !.queue = DeleteTerm(@, chunk_id),
                            !.result = Returned("delete_document", "Ok")]
  /\ shadow' = [shadow EXCEPT ![chunk_id] = None]
  /\ UNCHANGED <<watch, call, norm, filt, cli, visible>>

\* TantivyIndex::commit
Commit ==
  /\ index.pc = "open"
  /\ index' = [index EXCEPT !.committed = Applied(@, index.queue), !.queue = <<>>,
                            !.result = Returned("commit", "Ok")]
  /\ visible' = shadow
  /\ UNCHANGED <<watch, call, norm, filt, cli, shadow>>

\* TantivyIndex::clear: delete_all_documents and commit
Clear ==
  /\ index.pc = "open"
  /\ index' = [index EXCEPT !.committed = <<>>, !.queue = <<>>,
                            !.result = Returned("clear", "Ok")]
  /\ shadow' = [c \in ChunkIds |-> None]
  /\ visible' = [c \in ChunkIds |-> None]
  /\ UNCHANGED <<watch, call, norm, filt, cli>>

\* faulty variant: the reader sees what the writer has queued
ReaderDocs_Uncommitted == Applied(index.committed, index.queue)

\* self.index.reader(): what the searcher of a new reader sees
ReaderDocs == index.committed

\* TantivyIndex::doc_count: searcher.num_docs()
DocCount == Len(ReaderDocs)

\* the returned count
CallDocCount ==
  /\ index.pc = "open"
  /\ index' = [index EXCEPT !.result = Returned("doc_count", DocCount)]
  /\ UNCHANGED <<watch, call, norm, filt, cli, shadow, visible>>

\* the query parser's term query on the text field
Matches(doc, query_str) == query_str \in doc.text

\* the score of a matching document: a shorter text scores higher
Score(doc, query_str) == IF doc.text = {query_str} THEN 2 ELSE 1

\* the positions of the n best documents among cand, best first: higher
\* score first, earlier document first among equal scores
RECURSIVE TopDocs(_, _, _, _)
TopDocs(docs, cand, query_str, n) ==
  IF n = 0 \/ cand = {} THEN <<>>
  ELSE LET best == CHOOSE i \in cand : \A j \in cand :
                     \/ Score(docs[i], query_str) > Score(docs[j], query_str)
                     \/ /\ Score(docs[i], query_str) = Score(docs[j], query_str)
                        /\ i <= j
       IN <<best>> \o TopDocs(docs, cand \ {best}, query_str, n - 1)

\* the (chunk_id, score) pairs search pushes, one per top document
Hits(docs, query_str, limit) ==
  LET top == TopDocs(docs, {i \in DOMAIN docs : Matches(docs[i], query_str)},
                     query_str, limit)
  IN [k \in DOMAIN top |-> <<docs[top[k]].chunk_id, Score(docs[top[k]], query_str)>>]

\* TantivyIndex::search; TopDocs::with_limit panics on a limit of 0
Search(query_str, limit) ==
  /\ index.pc = "open"
  /\ index' = [index EXCEPT !.result =
                  [call |-> "search", query_str |-> query_str, limit |-> limit,
                   panicked |-> limit = 0,
                   value |-> IF limit = 0 THEN <<>>
                             ELSE Hits(ReaderDocs, query_str, limit)]]
  /\ UNCHANGED <<watch, call, norm, filt, cli, shadow, visible>>

TantivyNext ==
  \/ \E c \in ChunkIds, t \in Texts : AddDocument(c, t)
  \/ \E c \in ChunkIds : DeleteDocument(c)
  \/ Commit
  \/ Clear
  \/ CallDocCount
  \/ \E q \in Terms, limit \in 0..MaxLimit : Search(q, limit)

TantivySpec == TantivyInit /\ [][TantivyNext]_vars


\* ============================================================ filter_by_score
\* src/rust-tantivy/src/search.rs.  A score is an f32; the model keeps the
\* order of the scores and writes them as integers.
ScoreValues == 0..3

\* a result entry: (chunk_id, score)
Entries == ChunkIds \X ScoreValues

\* the result lists of at most n entries
ResultLists(n) == UNION {[1..k -> Entries] : k \in 0..n}

FilterInit ==
  /\ WatchParked
  /\ ApiIdle
  /\ NormIdle
  /\ TantivyIdle
  /\ CliIdle
  /\ filt \in [pc : {"called"}, results : ResultLists(MaxResults),
               min_score : ScoreValues, returned : {<<>>}]

\* faulty variant: the threshold itself is dropped
Keeps_Strict(entry, min_score) == entry[2] > min_score

\* |(_, score)| *score >= min_score
Keeps(entry, min_score) == entry[2] >= min_score

\* results.into_iter().filter(..).collect()
RECURSIVE FilterCollect(_, _)
FilterCollect(results, min_score) ==
  IF results = <<>> THEN <<>>
  ELSE IF Keeps(Head(results), min_score)
       THEN <<Head(results)>> \o FilterCollect(Tail(results), min_score)
       ELSE FilterCollect(Tail(results), min_score)

\* filter_by_score
FilterByScore ==
  /\ filt.pc = "called"
  /\ filt' = [filt EXCEPT !.pc = "returned",
                          !.returned = FilterCollect(filt.results, filt.min_score)]
  /\ UNCHANGED <<watch, call, norm, index, shadow, visible, cli>>

FilterNext == FilterByScore

FilterSpec == FilterInit /\ [][FilterNext]_vars

\* ============================================================ Tantivy CLI
\* src/api/tantivy/src/main.rs.  One index directory shared by the stores;
\* each command opens it, works and, if it writes, commits before it ends.
\* A document keeps its doc_id, store, path and content; the other fields
\* take no part in what the commands select.
Stores == {"s1", "s2"}
DocIds == {"d1", "d2"}
DocPaths == {<<"src", "a.rs">>, <<"lib", "b.rs">>}

\* the values of --path and --path-prefix: a path is a sequence of components
Prefixes == {<<"src">>, <<"lib">>}

\* an Option: the empty set is None, {x} is Some(x)
Option(S) == {{}} \cup {{x} : x \in S}

\* one line of stdin: an InputDocument, or a line serde_json cannot parse
InputLines == [valid : BOOLEAN, doc_id : DocIds, path : DocPaths, content : Terms]

CliInit ==
  /\ WatchParked
  /\ ApiIdle
  /\ NormIdle
  /\ TantivyIdle
  /\ FilterIdle
  /\ cli = [pc |-> "ready", exists |-> FALSE, docs |-> <<>>,
            last |-> [command |-> "none"]]

\* the documents whose doc_id is not in ids, in their order
RECURSIVE WithoutIds(_, _)
WithoutIds(docs, ids) ==
  IF docs = <<>> THEN <<>>
  ELSE IF Head(docs).doc_id \in ids THEN WithoutIds(Tail(docs), ids)
       ELSE <<Head(docs)>> \o WithoutIds(Tail(docs), ids)

\* the index after the loop over stdin and the commit: for every line that
\* parses, delete_term(doc_id) and add_document with the store of the command
RECURSIVE Indexed(_, _, _)
Indexed(docs, store, lines) ==
  IF lines = <<>> THEN docs
  ELSE LET doc == Head(lines)
       IN IF doc.valid
          THEN Indexed(Append(WithoutIds(docs, {doc.doc_id}),
                              [doc_id |-> doc.doc_id, store |-> store,
                               path |-> doc.path, content |-> doc.content]),
                       store, Tail(lines))
          ELSE Indexed(docs, store, Tail(lines))

\* index_documents
IndexDocuments(store, lines) ==
  /\ cli.pc = "ready"
  /\ cli' = [cli EXCEPT
               !.exists = TRUE,
               !.docs = Indexed(@, store, lines),
               !.last = [command |-> "index", store |-> store, ok |-> TRUE,
                         indexed |-> Cardinality({i \in DOMAIN lines : lines[i].valid}),
                         errors |-> Cardinality({i \in DOMAIN lines : ~lines[i].valid})]]
  /\ UNCHANGED <<watch, call, norm, index, shadow, visible, filt>>

\* path.starts_with(prefix)
PathStartsWith(path, prefix) ==
  /\ Len(prefix) <= Len(path)
  /\ SubSeq(path, 1, Len(prefix)) = prefix

\* the doc_id terms delete_documents deletes: the --doc-id given, and the
\* doc_id of every document of the store whose path starts with --path
DeletedIds(docs, store, path, doc_id) ==
  doc_id \cup {docs[i].doc_id : i \in {k \in DOMAIN docs :
                                        /\ docs[k].store = store
                                        /\ \E prefix \in path :
                                             PathStartsWith(docs[k].path, prefix)}}

\* delete_documents; Index::open_in_dir fails when no index was created
DeleteDocuments(store, path, doc_id) ==
  /\ cli.pc = "ready"
  /\ IF cli.exists
     THEN cli' = [cli EXCEPT
                    !.docs = WithoutIds(@, DeletedIds(cli.docs, store, path, doc_id)),
                    !.last = [command |-> "delete", store |-> store, ok |-> TRUE,
                              deleted |-> Cardinality(doc_id) + Cardinality(
                                {k \in DOMAIN cli.docs :
                                   /\ cli.docs[k].store = store
                                   /\ \E prefix \in path :
                                        PathStartsWith(cli.docs[k].path, prefix)})]]
     ELSE cli' = [cli EXCEPT !.last = [command |-> "delete", store |-> store, ok |-> FALSE]]
  /\ UNCHANGED <<watch, call, norm, index, shadow, visible, filt>>

\* the positions of the first n of cand in the order of the top documents:
\* the documents score alike, the earlier one comes first
RECURSIVE FirstOf(_, _)
FirstOf(cand, n) ==
  IF n = 0 \/ cand = {} THEN <<>>
  ELSE LET first == CHOOSE i \in cand : \A j \in cand : i <= j
       IN <<first>> \o FirstOf(cand \ {first}, n - 1)

\* the loop over top_docs: documents of another store and documents outside
\* the path prefix are skipped, the loop ends when top_k results are there
RECURSIVE Collected(_, _, _, _, _)
Collected(docs, top, store, path_prefix, room) ==
  IF top = <<>> \/ room = 0 THEN <<>>
  ELSE LET doc == docs[Head(top)]
       IN IF /\ doc.store = store
             /\ \A prefix \in path_prefix : PathStartsWith(doc.path, prefix)
          THEN <<doc>> \o Collected(docs, Tail(top), store, path_prefix, room - 1)
          ELSE Collected(docs, Tail(top), store, path_prefix, room)

\* search_index: the top_k * 2 best documents for the query, of any store,
\* are filtered; TopDocs::with_limit panics on a limit of 0
SearchIndex(store, query_str, top_k, path_prefix) ==
  /\ cli.pc = "ready"
  /\ cli' = [cli EXCEPT !.last =
               [command |-> "search", store |-> store, ok |-> cli.exists /\ top_k > 0,
                results |->
                  IF cli.exists /\ top_k > 0
                  THEN Collected(cli.docs,
                                 FirstOf({i \in DOMAIN cli.docs :
                                            cli.docs[i].content = query_str}, top_k * 2),
                                 store, path_prefix, top_k)
                  ELSE <<>>]]
  /\ UNCHANGED <<watch, call, norm, index, shadow, visible, filt>>

\* get_stats: the number of documents of the store
GetStats(store) ==
  /\ cli.pc = "ready"
  /\ cli' = [cli EXCEPT !.last =
               [command |-> "stats", store |-> store, ok |-> cli.exists,
                num_docs |-> Cardinality({i \in DOMAIN cli.docs :
                                            cli.docs[i].store = store})]]
  /\ UNCHANGED <<watch, call, norm, index, shadow, visible, filt>>

\* the inputs of one index command
StdinLines == UNION {[1..k -> InputLines] : k \in 1..MaxLines}

CliNext ==
  \/ \E store \in Stores, lines \in StdinLines : IndexDocuments(store, lines)
  \/ \E store \in Stores, path \in Option(Prefixes), doc_id \in Option(DocIds) :
       DeleteDocuments(store, path, doc_id)
  \/ \E store \in Stores, query_str \in Terms, top_k \in 0..MaxTopK,
        path_prefix \in Option(Prefixes) :
       SearchIndex(store, query_str, top_k, path_prefix)
  \/ \E store \in Stores : GetStats(store)

CliSpec == CliInit /\ [][CliNext]_vars

TypeOK ==
  /\ now \in 0..MaxTime
  /\ \A p \in DOMAIN fs : fs[p] \in BOOLEAN
  /\ pending_files \subseteq ((DOMAIN fs) \X (0..MaxTime))
  /\ mutex \in {"free", "sweep"}
  /\ sweepPc \in {"unspawned", "sleep", "remove", "index", "call", "await",
                  "ok", "failed", "panicked"}
  /\ Range(files_ready) \subseteq DOMAIN fs
  /\ startPc \in {"health", "health_await", "healthy", "unhealthy", "scan", "scan_call",
                  "scan_ok", "scan_failed", "build", "watcher", "register", "spawn",
                  "loop", "aborted"}
  /\ walk_failed \subseteq DOMAIN fs
  /\ full_index \in BOOLEAN
  /\ setup_error \in {"none", "build", "watcher", "register"}
  /\ scan_uploaded \subseteq DOMAIN fs
  /\ lost \subseteq DOMAIN fs

\* ================================================================ claims
\* the timestamp pending_files holds for p
EntryTime(p) == (CHOOSE e \in pending_files : e[1] = p)[2]

\* a Create/Modify event for p that passes the filter is consumed by this step
InsertStep(p) ==
  /\ rx # <<>>
  /\ Head(rx).kind \in {"Create", "Modify"}
  /\ Head(Head(rx).paths) = p
  /\ Qualifies(p)
  /\ rx' = RxAfterPath

\* the sweep has removed p and the indexing of p has not completed
HandedOff(p) ==
  \/ sweepPc = "index" /\ p \in Range(files_ready)
  \/ sweepPc \in {"call", "await"} /\ (p = file_path \/ p \in Range(files_ready))

\* C1: a path whose events have stopped is removed and handed to the indexing
\* loop exactly once in its burst, at the latest DEBOUNCE_DELAY plus one sweep
\* tick after its last event.
C1_CoalescedOnceWithinTick ==
  \A p \in Paths :
    lastEvent[p] # NoTime =>
      /\ emits[p] <= 1
      /\ now > lastEvent[p] + DEBOUNCE_DELAY + SWEEP_SLEEP => emits[p] = 1

\* C2: a path leaves the pending table only when at least DEBOUNCE_DELAY has
\* passed since the most recent event recorded for it.
C2_NoEarlyEmission ==
  [][\A p \in Paths :
       (p \in Keys(pending_files) /\ p \notin Keys(pending_files')) =>
         /\ lastEvent[p] # NoTime
         /\ now - lastEvent[p] >= DEBOUNCE_DELAY]_vars

\* a path whose timestamp was refreshed by a later event has been removed by
\* the sweep and waits in its ready list
C2_Witness ==
  \E p \in Paths :
    /\ refreshed[p]
    /\ lastEvent[p] > 0
    /\ emits[p] = 1
    /\ p \notin Keys(pending_files)
    /\ p \in Range(files_ready)

\* C3: every entry that a step removes from the pending table is at least
\* DEBOUNCE_DELAY old at the moment of removal, whatever the event loop did
\* since the sweep judged it ready, and its path is in the sweep's ready list.
C3_SweepAtomic ==
  [][\A e \in pending_files :
       e[1] \notin Keys(pending_files') =>
         /\ now - e[2] >= DEBOUNCE_DELAY
         /\ e[1] \in Range(files_ready')]_vars

\* the event loop has an event for a path the sweep has judged ready, while
\* the sweep holds the lock
C3_Witness ==
  /\ mutex = "sweep"
  /\ rx # <<>>
  /\ Head(rx).kind \in {"Create", "Modify"}
  /\ Head(Head(rx).paths) \in Range(files_ready)
  /\ Qualifies(Head(Head(rx).paths))

\* C4: an unreadable ready file never stops the debounce task.
C4_TaskSurvivesReadError == sweepPc # "panicked"

\* C5: while an upload is in flight the next sweep is never overdue: it runs
\* one tick after the previous one.
C5_SweepNeverWaitsForUpload ==
  sweepPc = "await" => now <= wakeAt + SWEEP_SLEEP

\* C6: while the upload of one ready path is in flight, the upload of the
\* next ready path can start.
C6_UploadsIndependent ==
  (sweepPc = "await" /\ files_ready # <<>>) => ENABLED IndexPrepare

\* C7: whenever an event of a path still waits for its indexing attempt, the
\* debounce task is there to make it.
C7_AttemptStillComes ==
  \A p \in Paths : dirty[p] => sweepPc # "panicked"

C9_RemovedOnceIndexedOnce ==
  \A p \in Paths :
    /\ owed[p] \in {0, 1}
    /\ sweepPc \in {"sleep", "remove", "panicked"} => owed[p] = 0

\* C10: the pending table holds at most one entry per path.
C10_OneEntryPerPath ==
  \A e1, e2 \in pending_files : e1[1] = e2[1] => e1 = e2

\* an event has refreshed the entry of a path that was already pending
C10_Witness ==
  \E p \in Paths :
    /\ refreshed[p]
    /\ p \in Keys(pending_files)
    /\ EntryTime(p) = lastEvent[p]
    /\ lastEvent[p] > 0

\* ------------------------------------------------ claims about the session
\* the events the loop has taken from rx
Consumed == Len(delivered) - Len(rx)

\* the path is in the pending table or in the hands of the indexing loop
Tracked(p) ==
  \/ p \in Keys(pending_files)
  \/ p \in Range(files_ready)
  \/ p = file_path

\* the rules of the root ignore files match the path itself or one of its
\* ancestor directories under the root, as an ignore match
MarkedIgnore(p) ==
  LET rules == BuildMatcher(ignore_files)
      rel == StripPrefix(p, WatchRoot)
  IN \/ MatchedStripped(rules, rel, FALSE) = "Ignore"
     \/ \E k \in 1..(Len(rel) - 1) : MatchedStripped(rules, SubSeq(rel, 1, k), TRUE) = "Ignore"

\* one of the components of the path is .git
InsideGit(p) == \E i \in 1..Len(p) : p[i] = ".git"

\* the event loop takes the first event, or the first path of it, from rx
LoopStep == HandleInsert \/ HandleFiltered \/ HandleOther \/ HandleError

\* nothing is left to do until the next event
Quiescent ==
  /\ startPc = "loop"
  /\ rx = <<>>
  /\ pending_files = {}
  /\ sweepPc = "sleep"
  /\ files_ready = <<>>

\* C11: a path that the root ignore rules mark Ignore, itself or through an
\* ancestor directory, is never in the pending table and never in the hands
\* of the indexing loop.
C11_IgnoredNeverTracked ==
  \A p \in DOMAIN fs : MarkedIgnore(p) => ~Tracked(p)

\* C12: with a/.gitignore holding *.log, a/x.log is never tracked and never
\* handed to the indexing loop, whatever is created under the watch.
C12_NestedIgnoreHonoured ==
  (LogFile \in DOMAIN fs /\ RulesOf(ignore_files, NestedGitignoreFile) # <<>>) =>
    ~Tracked(LogFile)

\* C13: a path inside .git is never uploaded by the scanner and never tracked
\* or uploaded by the watch loop, whatever the ignore files hold.
C13_GitExcludedUnconditionally ==
  \A p \in DOMAIN fs : InsideGit(p) => (p \notin scan_uploaded /\ ~Tracked(p))

\* the scan is over and the loop has taken a Create/Modify event for a path
\* inside .git that the ignore rules re-include
C13_Witness ==
  /\ startPc = "loop"
  /\ walk = <<>>
  /\ \E i \in 1..Len(ignore_matcher) :
       ignore_matcher[i].neg /\ ignore_matcher[i].pat = ".git"
  /\ \E i \in 1..Consumed :
       /\ delivered[i].kind \in {"Create", "Modify"}
       /\ InsideGit(delivered[i].paths[1])
       /\ fs[delivered[i].paths[1]]

\* C14: the step that takes an event of a kind other than Create and Modify
\* from the channel leaves the pending table and the indexing loop as they
\* are.
C14_OnlyCreateModifyForwarded ==
  [][(rx # <<>> /\ Head(rx).kind \notin {"Create", "Modify"} /\ rx' = Tail(rx)) =>
       UNCHANGED <<units, pending_files, files_ready, file_path, sweepPc>>]_vars

\* the loop has taken a Remove event for a path that is pending
C14_Witness ==
  \E i \in 1..Consumed :
    /\ delivered[i].kind = "Remove"
    /\ delivered[i].paths[1] \in Keys(pending_files)

\* C15: the channel holds exactly the delivered events the loop has not yet
\* taken, in delivery order; the watcher can always send, however many
\* events wait; and an event that waits can be taken as soon as the sweep
\* has released the lock.
C15_ChannelNeverDropsOrBlocks ==
  /\ Consumed >= 0
  /\ rx = SubSeq(delivered, Consumed + 1, Len(delivered))
  /\ (Watching /\ Len(delivered) < MaxEvents) => ENABLED WatcherError
  /\ (startPc = "loop" /\ rx # <<>>) => (ENABLED LoopStep \/ ENABLED SweepRemove)

\* two events wait on the channel while an upload is in flight
C15_Witness ==
  /\ Len(rx) >= 2
  /\ sweepPc = "await"

\* C16: the debounce task leaves a failed upload by going on with its loop,
\* the pending table and the rest of the ready list untouched; a path enters
\* the pending table only by the loop taking a Create/Modify event for it,
\* and the ready list is only filled from the pending table by a sweep.
C16_FailedUploadNotRetried ==
  [][/\ (sweepPc = "failed" /\ sweepPc' # "failed") =>
          (sweepPc' = "index" /\ UNCHANGED <<units, pending_files, files_ready>>)
     /\ \A p \in DOMAIN fs :
          (p \notin Keys(pending_files) /\ p \in Keys(pending_files')) =>
            /\ rx # <<>>
            /\ Head(rx).kind \in {"Create", "Modify"}
            /\ Head(Head(rx).paths) = p
            /\ rx' = RxAfterPath
     /\ Range(files_ready') \subseteq
          IF sweepPc = "sleep" THEN Keys(pending_files) ELSE Range(files_ready)]_vars

\* an upload has failed and another ready path is still to be indexed
C16_Witness ==
  /\ sweepPc = "failed"
  /\ files_ready # <<>>
  /\ fs[file_path]

\* C17: the step that takes a watch error from the channel leaves the
\* pending table and the debounce task as they are, and the loop goes on.
C17_WatchErrorLoopContinues ==
  [][(rx # <<>> /\ Head(rx).kind = "Error" /\ rx' = Tail(rx)) =>
       /\ UNCHANGED <<units, pending_files, files_ready, file_path, sweepPc>>
       /\ startPc' = "loop"]_vars

\* the only event for a path came after a watch error, and the path's upload
\* is in flight
C17_Witness ==
  \E i, j \in 1..Consumed :
    /\ i < j
    /\ delivered[i].kind = "Error"
    /\ delivered[j].kind \in {"Create", "Modify"}
    /\ \A k \in 1..Len(delivered) : k # j => delivered[k].paths # delivered[j].paths
    /\ sweepPc = "await"
    /\ file_path = delivered[j].paths[1]

\* C18: when nothing is left to do, no change whose event was lost is still
\* waiting for an upload that a full rescan would make.
C18_LossTriggersRescan ==
  Quiescent => \A p \in lost : ~(fs[p] /\ WalkYields(ignore_files, p))

C20_NoIgnoreFilesTrackAll ==
  /\ [](ignore_files = <<>> =>
          /\ setup_error # "build"
          /\ \A p \in DOMAIN fs : dirty[p] => sweepPc # "panicked")
  /\ [][(/\ ignore_files = <<>>
         /\ startPc = "loop"
         /\ rx # <<>>
         /\ Head(rx).kind \in {"Create", "Modify"}
         /\ rx' = RxAfterPath
         /\ fs[Head(Head(rx).paths)]
         /\ ~InsideGit(Head(Head(rx).paths))) =>
          <<Head(Head(rx).paths), now>> \in pending_files']_vars

\* ------------------------------------------------- claims about the startup
\* the step of run() that follows the health check
AfterHealth == ScanStep \/ ScanDone \/ BuildIgnore \/ BuildIgnoreFails

\* C21: whatever the health check answers, run() goes on to the optional
\* scan and the setup of the watch; and the session is never held at the
\* health check: while the request is in flight the next step can be taken.
C21_HealthCheckAdvisory ==
  /\ [](startPc \in {"health", "health_await", "healthy", "unhealthy"} =>
          (ENABLED AfterHealth \/ ENABLED HealthCheckSend \/ ENABLED HealthReport))
  /\ [][(startPc \in {"healthy", "unhealthy"} /\ startPc' # startPc) =>
          startPc' = IF full_index THEN "scan" ELSE "build"]_vars

\* ---------------------------------------------------- claims about the units
\* C22: a call of index_file that has returned has returned Ok exactly when
\* the file was read, the request got a response, the status of the
\* response was in 200..299 and its body was JSON; otherwise it returned Err.
C22_OkExactlyOn2xxJson ==
  call.pc = "done" =>
    /\ call.result \in {"Ok", "Err"}
    /\ call.result = "Ok" <=>
         (call.read_ok /\ call.send_ok /\ call.status \in 200..299 /\ call.json_ok)

\* the endpoint has answered with a status that is not 2xx and a JSON body,
\* and the call has returned
C22_Witness ==
  /\ call.pc = "done"
  /\ call.read_ok
  /\ call.send_ok
  /\ call.status \notin 200..299
  /\ call.json_ok

\* the marker occurs somewhere in the string
HasMarker(str) ==
  \E i \in 1..Len(str) :
    i + Len(Marker) - 1 <= Len(str) /\ SubSeq(str, i, i + Len(Marker) - 1) = Marker

\* C23: the upload name handed to the uploader, by the scanner and by the
\* watch loop, holds no backslash and no verbatim prefix marker, whatever
\* separators and prefix the path had.
C23_UploadNameNormalized ==
  norm.pc = "done" =>
    /\ \A i \in 1..Len(norm.upload_name) : norm.upload_name[i] # "\\"
    /\ ~HasMarker(norm.upload_name)

\* a path written with both separators, canonicalized to the verbatim form,
\* has been handed over
C23_Witness ==
  /\ norm.pc = "done"
  /\ \E i, j \in 1..Len(norm.path) : norm.path[i] = "\\" /\ norm.path[j] = "/"
  /\ StartsWith(norm.abs_str, Marker)
  /\ norm.upload_name # <<>>

\* the scan is between its first and its last line
Scanning == startPc \in {"scan", "scan_call", "scan_ok", "scan_failed"}

\* C24: the scan is never aborted and can always go on; a file is handed to
\* the uploader only if it was not handed before; and when scan returns the
\* walker is exhausted and exactly the regular files that the walker yields,
\* except the entries with a walk error, have been handed to the uploader.
C24_ScanRunsToCompletion ==
  /\ [](/\ startPc # "aborted"
        /\ Scanning => ENABLED ScanNext
        /\ startPc = "build" =>
             /\ walk = <<>>
             /\ scan_uploaded =
                  {p \in DOMAIN fs : fs[p] /\ WalkYields(ignore_files, p)} \ walk_failed)
  /\ [][(startPc = "scan" /\ startPc' = "scan_call") =>
          /\ Head(walk) \notin scan_uploaded
          /\ scan_uploaded' = scan_uploaded \cup {Head(walk)}]_vars
  /\ [][(Scanning /\ ~Scanning') => (startPc = "scan" /\ walk = <<>> /\ startPc' = "build")]_vars

\* an upload of the scan has failed after a walk error on another entry, and
\* the walker has more entries to yield
C24_Witness ==
  /\ startPc = "scan_failed"
  /\ walk_failed # {}
  /\ scan_uploaded # {}
  /\ \E i \in 1..Len(walk) : fs[walk[i]] /\ WalkYields(ignore_files, walk[i])

\* ---------------------------------------------------------------- C25..C28
\* the number of documents of docs that carry chunk_id
Carrying(docs, chunk_id) ==
  Cardinality({i \in DOMAIN docs : docs[i].chunk_id = chunk_id})

\* at most one document per chunk_id, each with the text that intent holds
UpsertOf(docs, intent) ==
  \A c \in ChunkIds :
    /\ Carrying(docs, c) <= 1
    /\ \A i \in DOMAIN docs : docs[i].chunk_id = c => docs[i].text = intent[c]
    /\ intent[c] # None => Carrying(docs, c) = 1

\* C25: after any sequence of add_document, delete_document and commit, the
\* committed index holds at most one document per chunk_id, with the text
\* most recently added under that id; the same holds of the index a commit
\* would produce in the current state.
C25_UpsertUniqueness ==
  index.pc = "open" =>
    /\ UpsertOf(index.committed, visible)
    /\ UpsertOf(Applied(index.committed, index.queue), shadow)

\* a chunk_id whose document is committed is added again, twice, with other
\* texts, and the last one has just been queued
C25_Witness ==
  /\ index.pc = "open"
  /\ index.result.call = "add_document"
  /\ index.committed = <<Doc("chunk1", {"rust"})>>
  /\ index.queue = QueueAfterAdd(QueueAfterAdd(<<>>, "chunk1", {"python"}),
                                 "chunk1", {"rust", "python"})

\* a step of commit
CommitStep == index.pc = "open" /\ index'.result.call = "commit"

\* the documents a reader sees, as a set
ReaderSet == {ReaderDocs[i] : i \in DOMAIN ReaderDocs}

\* C26: a commit after delete_document(id) leaves no document with that id;
\* when only deletions were made since the last commit, doc_count drops by
\* the number of documents that carried the deleted ids, and by nothing, the
\* documents being the same, when none did; delete_document returns Ok.
C26_DeleteRemoves ==
  [][/\ index.pc = "open" /\ index'.result.call = "delete_document"
        => index'.result.value = "Ok"
     /\ CommitStep =>
          /\ \A c \in ChunkIds : shadow[c] = None => Carrying(index'.committed, c) = 0
          /\ (\A d \in ChunkIds : shadow[d] \in {visible[d], None}) =>
               /\ DocCount' = DocCount - Cardinality({i \in DOMAIN index.committed :
                                        shadow[index.committed[i].chunk_id] = None})
               /\ (\A c \in ChunkIds : shadow[c] = None => Carrying(index.committed, c) = 0)
                    => ReaderSet' = ReaderSet]_vars

\* the one committed document has been deleted and the commit is next
C26_Witness ==
  /\ index.pc = "open"
  /\ index.result.call = "delete_document"
  /\ Len(index.committed) = 1
  /\ shadow = [c \in ChunkIds |-> None]
  /\ visible # shadow

\* the committed documents that contain the term
Matching(query_str) == {i \in DOMAIN index.committed : query_str \in index.committed[i].text}

\* the chunk_ids of the hits
HitIds(hits) == {hits[k][1] : k \in DOMAIN hits}

\* C27: search(query, limit) returns committed documents whose text contains
\* the term, each chunk_id once, all of them when limit allows and never
\* more than limit.
C27_SearchExact ==
  (index.pc = "open" /\ index.result.call = "search") =>
    /\ ~index.result.panicked
    /\ LET hits == index.result.value
           n == Cardinality(Matching(index.result.query_str))
       IN /\ Len(hits) = IF n <= index.result.limit THEN n ELSE index.result.limit
          /\ Cardinality(HitIds(hits)) = Len(hits)
          /\ HitIds(hits) \subseteq {index.committed[i].chunk_id :
                                       i \in Matching(index.result.query_str)}

\* what history says a reader sees
VisibleSet == {Doc(c, visible[c]) : c \in {d \in ChunkIds : visible[d] # None}}

\* C28: search and doc_count see the documents as the last commit or clear
\* left them, whatever has been added or deleted since; after a commit that
\* is all the changes made before it.
C28_VisibleOnlyAfterCommit ==
  index.pc = "open" =>
    /\ ReaderSet = VisibleSet
    /\ DocCount = Cardinality(VisibleSet)
    /\ index.result.call = "doc_count" => index.result.value = Cardinality(VisibleSet)
    /\ (index.result.call = "search" /\ ~index.result.panicked) =>
         LET want == {c \in ChunkIds : /\ visible[c] # None
                                       /\ index.result.query_str \in visible[c]}
         IN /\ HitIds(index.result.value) \subseteq want
            /\ Cardinality(want) <= index.result.limit => HitIds(index.result.value) = want
    /\ index.result.call = "commit" => visible = shadow

\* doc_count is called between an add and the next commit
C28_Witness ==
  /\ index.pc = "open"
  /\ index.result.call = "doc_count"
  /\ index.queue # <<>>
  /\ shadow # visible
  /\ \E c \in ChunkIds : shadow[c] # None /\ visible[c] = None

\* ---------------------------------------------------------------- C30
\* C30: the scanner and the watch loop agree on every file: under the same
\* ignore files, a regular file of the tree is yielded by the scanner's walk,
\* and so uploaded by the initial scan, exactly when the watch loop would
\* insert it into the pending table on a Create or Modify event.
C30_ScannerAndWatchAgree ==
  startPc = "loop" =>
    \A p \in DOMAIN fs : fs[p] => (WalkYields(ignore_files, p) <=> Qualifies(p))

\* ---------------------------------------------------------------- C29
\* the positions of results whose score is at least min_score, in order
RECURSIVE KeptPositions(_, _, _)
KeptPositions(results, min_score, from) ==
  IF from > Len(results) THEN <<>>
  ELSE IF results[from][2] >= min_score
       THEN <<from>> \o KeptPositions(results, min_score, from + 1)
       ELSE KeptPositions(results, min_score, from + 1)

\* C29: filter_by_score returns exactly the entries whose score is at least
\* min_score, the threshold included, in their original order and unchanged.
C29_FilterExact ==
  filt.pc = "returned" =>
    LET kept == KeptPositions(filt.results, filt.min_score, 1)
    IN /\ Len(filt.returned) = Len(kept)
       /\ \A k \in DOMAIN kept : filt.returned[k] = filt.results[kept[k]]
       /\ Len(kept) = Cardinality({i \in DOMAIN filt.results :
                                     filt.results[i][2] >= filt.min_score})
       /\ \A k \in DOMAIN kept : k > 1 => kept[k - 1] < kept[k]

\* a list with a score below, at and above the threshold has been filtered
C29_Witness ==
  /\ filt.pc = "returned"
  /\ Len(filt.results) = 3
  /\ filt.results[1][2] > filt.min_score
  /\ filt.results[2][2] < filt.min_score
  /\ filt.results[3][2] = filt.min_score
  /\ Len(filt.returned) = 2

\* ---------------------------------------------------------------- C31
\* C31: with full_index set no change is lost between the scan and the watch:
\* once nothing is left to do, every file that was modified after the scan
\* uploaded it has been uploaded again.
C31_NoChangeLostAfterScan ==
  (full_index /\ Quiescent) => \A p \in scan_uploaded : p \notin lost

\* ---------------------------------------------------------------- C32
\* the entries of the pending table for paths other than p
OtherEntries(m, p) == {e \in m : e[1] # p}

\* C32: the step of the sweep that removes entries removes exactly those at
\* least DEBOUNCE_DELAY old and leaves every other entry and its timestamp
\* as it was; the insert for an event of path p sets p's entry to the
\* current instant and leaves the entries of all other paths as they were;
\* no other step changes the pending table.
C32_SweepAndInsertFrame ==
  [][/\ (sweepPc = "remove" /\ sweepPc' = "index") =>
          /\ pending_files' = {e \in pending_files : now - e[2] < DEBOUNCE_DELAY}
          /\ Range(files_ready) = Keys(pending_files) \ Keys(pending_files')
     /\ \A p \in DOMAIN fs : InsertStep(p) =>
          /\ OtherEntries(pending_files', p) = OtherEntries(pending_files, p)
          /\ pending_files' \ OtherEntries(pending_files', p) = {<<p, now>>}
     /\ pending_files' # pending_files =>
          \/ sweepPc = "remove" /\ sweepPc' = "index"
          \/ \E p \in DOMAIN fs : InsertStep(p)]_vars

\* the sweep has just removed its ready entries and an entry made before
\* this sweep, too young for it, is still in the table
C32_Witness ==
  /\ sweepPc = "index"
  /\ files_ready # <<>>
  /\ \E e \in pending_files : e[2] < now /\ e[1] \notin Range(files_ready)

\* ---------------------------------------------------------------- C33
\* the documents of the index that belong to another store than store
OfOtherStores(docs, store) == {docs[i] : i \in {k \in DOMAIN docs : docs[k].store # store}}

\* C33: a command run for a store leaves the documents of every other store
\* in the index as they were, and a search returns documents of its own
\* store only.
C33_StoreIsolation ==
  [][\A store \in Stores :
       (cli.pc = "ready" /\ cli'.last.command # "none" /\ cli'.last.store = store) =>
         /\ OfOtherStores(cli'.docs, store) = OfOtherStores(cli.docs, store)
         /\ cli'.last.command = "search" =>
              \A k \in DOMAIN cli'.last.results : cli'.last.results[k].store = store]_vars
====
